---- MODULE Spec2Model ----
(***************************************************************************)
(* es2csv: Elasticsearch to CSV exporter (main.go, two variants).          *)
(*                                                                         *)
(* The streaming variant prints each page as it arrives; the buffering     *)
(* variant collects every page and prints afterwards.  Both drive the same *)
(* getPage / getFirstPage / sendAndDecode / getHeader helpers.  The model  *)
(* follows main() statement by statement; the Elasticsearch server is the  *)
(* environment and answers each request nondeterministically.              *)
(***************************************************************************)
EXTENDS Integers, Sequences, FiniteSets, TLC

\* ---------------------------------------------------------------- bounds
MaxFetch == 3      \* requests issued in one run
MaxTotal == 2      \* largest hits.total the unconstrained server reports
MaxData == 3       \* size of the result set held by the paging server
MaxSize == 2       \* page size of the paging server

VARIABLES
    variant,    \* "streaming" | "buffering": which main() runs
    index,      \* -index flag
    filter,     \* strings.Split(fields, ",")
    srv,        \* the server (environment)
    pc,         \* position of main(): fetch, header, rows, check, post, done, failed, panic
    scrollID,   \* var scrollID string
    header,     \* var header []string
    hitCount,   \* var hitCount int (streaming)
    hits,       \* hits of the current page (streaming) / every hit so far (buffering)
    result,     \* result of the last getPage
    err,        \* err of the last getPage
    out,        \* lines written to stdout
    outKind,    \* ghost: "header" or "row" for each line of out
    outHdr,     \* ghost: the value of header when each line of out was written
    fatalErr,   \* message handed to log.Fatalf, "" when none
    reqs,       \* ghost: the requests sent so far
    fetched,    \* ghost: what each getPage returned
    seen        \* ghost: every hit returned by getPage so far, in order

vars == <<variant, index, filter, srv, pc, scrollID, header, hitCount, hits,
          result, err, out, outKind, outHdr, fatalErr, reqs, fetched, seen>>

\* ------------------------------------------------------------ data model
SeqUpTo(S, n) == UNION {[1..k -> S] : k \in 0..n}

\* JSON values of a _source field (interface{})
Num(n) == [num |-> n]
Str(s) == [str |-> s]
Nil == [nil |-> TRUE]

ResultHit(src) == [Source |-> src]

HitSet ==
    { ResultHit([a |-> Num(1), b |-> Str("x"), c |-> Num(3)]),
      ResultHit([b |-> Nil, c |-> Str("y")]) }

\* Result{}: the zero value returned next to every error
EmptyResult == [ScrollID |-> "", Total |-> 0, Hits |-> <<>>]

\* the _scroll_id carried by the answer to the k-th request of a scrolling search
TokenFor(k) == "s" \o ToString(k)

Indexes == {"", "logs"}

Filters == { <<"a", "b">>, <<"c">> }

\* fmt.Sprintf("%v", v)
Sprintf(v) ==
    IF "num" \in DOMAIN v THEN ToString(v.num)
    ELSE IF "str" \in DOMAIN v THEN v.str
    ELSE "<nil>"

RECURSIVE Join(_, _)
\* strings.Join(elems, sep)
Join(elems, sep) ==
    IF Len(elems) = 0 THEN ""
    ELSE IF Len(elems) = 1 THEN elems[1]
    ELSE elems[1] \o sep \o Join(Tail(elems), sep)

\* stringSliceContains(strs, str)
stringSliceContains(strs, str) == \E i \in 1..Len(strs) : strs[i] = str

\* every order in which a Go map range may visit the keys of S
MapOrders(S) ==
    {s \in [1..Cardinality(S) -> S] : \A i, j \in 1..Cardinality(S) : i # j => s[i] # s[j]}

\* getHeader(hit, fields): the set of headers the map iteration can produce
getHeader(hit, fields) ==
    MapOrders({k \in DOMAIN hit.Source :
                  ~(Len(fields) # 0 /\ ~stringSliceContains(fields, k))})

\* the inner loop with the append moved inside the "if ok" branch
Cells_SkipMissing(h, hdr) ==
    LET present == SelectSeq(hdr, LAMBDA k : k \in DOMAIN h.Source)
    IN  [i \in 1..Len(present) |-> Sprintf(h.Source[present[i]])]

\* the cells built for one hit by the inner loop over header
Cells(h, hdr) ==
    [i \in 1..Len(hdr) |->
        IF hdr[i] \in DOMAIN h.Source THEN Sprintf(h.Source[hdr[i]]) ELSE ""]

\* the loop over hits starting at the second hit
RowLines_SkipFirst(hs, hdr) ==
    [i \in 1..(Len(hs) - 1) |-> Join(Cells(hs[i + 1], hdr), ",")]

\* the loop over hits walking the slice backwards
RowLines_Reversed(hs, hdr) ==
    [i \in 1..Len(hs) |-> Join(Cells(hs[Len(hs) + 1 - i], hdr), ",")]

\* the lines printed by the loop over hits
RowLines(hs, hdr) == [i \in 1..Len(hs) |-> Join(Cells(hs[i], hdr), ",")]

RowKinds(hs) == [i \in 1..Len(hs) |-> "row"]

\* ------------------------------------------------------------- requests
\* getFirstPage: POST {host}/_search or {host}/{index}/_search?scroll=2m
getFirstPage(idx) == [kind |-> "search", scroll |-> (idx # ""), scroll_id |-> ""]

\* getPage: first page when scrollID is empty, else POST {host}/_search/scroll
getPage(sid, idx) ==
    IF sid = "" THEN getFirstPage(idx)
    ELSE [kind |-> "scroll", scroll |-> TRUE, scroll_id |-> sid]

\* ------------------------------------------------------------ the server
\* An unconstrained server answers anything, one hit at a time; a paging
\* server holds a finite result set and hands it out in pages of several
\* hits, then answers with no hits.
FreeServer == [mode |-> "free", data |-> <<>>, pos |-> 0, size |-> 0, total |-> 0]

PagedServers ==
    { [mode |-> "paged", data |-> d, pos |-> 0, size |-> sz, total |-> t] :
        d \in SeqUpTo(HitSet, MaxData), sz \in 1..MaxSize, t \in 0..MaxData }

Servers ==
    {FreeServer} \cup
    {s \in PagedServers : s.total <= Len(s.data) /\ (Len(s.data) > 0 => s.total > 0)}

TransportError == [status |-> "transport", body |-> EmptyResult]
DecodeError == [status |-> "decode", body |-> EmptyResult]
Ok(body) == [status |-> "ok", body |-> body]

FreeBodies(req, k) ==
    {EmptyResult} \cup
    { [ScrollID |-> IF req.scroll THEN TokenFor(k) ELSE "", Total |-> n, Hits |-> hs] :
        n \in 1..MaxTotal,
        hs \in {<<h>> : h \in HitSet} }

PagedAnswer(s, req, k) ==
    LET start == IF req.kind = "search" THEN 0 ELSE s.pos
        last == IF start + s.size < Len(s.data) THEN start + s.size ELSE Len(s.data)
        page == SubSeq(s.data, start + 1, last)
    IN  [resp |-> Ok([ScrollID |-> IF req.scroll THEN TokenFor(k) ELSE "",
                      Total |-> s.total, Hits |-> page]),
         srv |-> [s EXCEPT !.pos = start + Len(page)]]

\* http.DefaultClient.Do(req) and the body it yields: the possible answers
Respond(s, req, k) ==
    {[resp |-> TransportError, srv |-> s], [resp |-> DecodeError, srv |-> s]} \cup
    IF s.mode = "free"
    THEN {[resp |-> Ok(b), srv |-> s] : b \in FreeBodies(req, k)}
    ELSE {PagedAnswer(s, req, k)}

\* sendAndDecode(req)
sendAndDecode(resp) ==
    IF resp.status = "transport" THEN [result |-> EmptyResult, err |-> "transport"]
    ELSE IF resp.status = "decode" THEN [result |-> EmptyResult, err |-> "decode"]
    ELSE IF Len(resp.body.Hits) = 0 THEN [result |-> EmptyResult, err |-> "ErrNoMorePages"]
    ELSE [result |-> resp.body, err |-> "nil"]

\* ---------------------------------------------------------------- main()
Init ==
    /\ variant \in {"streaming", "buffering"}
    /\ index \in Indexes
    /\ filter \in Filters
    /\ srv \in Servers
    /\ pc = "fetch"
    /\ scrollID = ""
    /\ header = <<>>
    /\ hitCount = 0
    /\ hits = <<>>
    /\ result = EmptyResult
    /\ err = "nil"
    /\ out = <<>>
    /\ outKind = <<>>
    /\ outHdr = <<>>
    /\ fatalErr = ""
    /\ reqs = <<>>
    /\ fetched = <<>>
    /\ seen = <<>>

\* the same test with the second comparison flipped
S_FetchFailed_Flipped(e) == e # "nil" /\ e = "ErrNoMorePages"

\* if err != nil && err != ErrNoMorePages { fatal(err) }   (streaming)
S_FetchFailed(e) == e # "nil" /\ e # "ErrNoMorePages"

\* the same test with the second comparison flipped
B_FetchFailed_Flipped(e) == e # "nil" /\ e = "ErrNoMorePages"

\* if err != nil && err != ErrNoMorePages { fatal(err) }   (buffering)
B_FetchFailed(e) == e # "nil" /\ e # "ErrNoMorePages"

\* a loop without the total-reached test
S_TotalReached_Never(hs, res) == FALSE

\* if len(hits) == int(result.Hits.Total.Value) { break }
S_TotalReached(hs, res) == Len(hs) = res.Total

\* if err == ErrNoMorePages { break }   (streaming)
S_NoMorePages(e) == e = "ErrNoMorePages"

\* a loop without the exhaustion test
B_NoMorePages_Never(e) == FALSE

\* if err == ErrNoMorePages { break }   (buffering)
B_NoMorePages(e) == e = "ErrNoMorePages"

\* if scrollID == "" : the test main uses for "we're on the first page"
S_OnFirstPage(sid) == sid = ""

\* ghost record of one getPage call: what it returned and how many lines
\* stdout held when the request was sent
Fetched(d, written) ==
    [n |-> Len(d.result.Hits), total |-> d.result.Total,
     token |-> d.result.ScrollID, err |-> d.err, outLen |-> written]

\* streaming: getPage, the fatal check, hits and hitCount
S_Fetch ==
    /\ variant = "streaming" /\ pc = "fetch" /\ Len(reqs) < MaxFetch
    /\ LET req == getPage(scrollID, index) IN
       \E r \in Respond(srv, req, Len(reqs) + 1) :
          LET d == sendAndDecode(r.resp) IN
          /\ reqs' = Append(reqs, req)
          /\ srv' = r.srv
          /\ result' = d.result
          /\ err' = d.err
          /\ fetched' = Append(fetched, Fetched(d, Len(out)))
          /\ IF S_FetchFailed(d.err)
             THEN /\ pc' = "failed"
                  /\ fatalErr' = d.err
                  /\ UNCHANGED <<hits, hitCount, seen>>
             ELSE /\ pc' = "header"
                  /\ hits' = d.result.Hits
                  /\ hitCount' = hitCount + Len(d.result.Hits)
                  /\ seen' = seen \o d.result.Hits
                  /\ UNCHANGED fatalErr
    /\ UNCHANGED <<variant, index, filter, scrollID, header, out, outKind, outHdr>>

\* streaming: if scrollID == "" { header = getHeader(hits[0], filter); Println }
S_Header ==
    /\ variant = "streaming" /\ pc = "header"
    /\ IF S_OnFirstPage(scrollID)
       THEN IF Len(hits) = 0
            THEN \* hits[0]: index out of range, the runtime panics
                 /\ pc' = "panic"
                 /\ UNCHANGED <<header, out, outKind, outHdr>>
            ELSE \E h \in getHeader(hits[1], filter) :
                 /\ header' = h
                 /\ out' = Append(out, Join(h, ","))
                 /\ outKind' = Append(outKind, "header")
                 /\ outHdr' = Append(outHdr, h)
                 /\ pc' = "rows"
       ELSE /\ pc' = "rows"
            /\ UNCHANGED <<header, out, outKind, outHdr>>
    /\ UNCHANGED <<variant, index, filter, srv, scrollID, hitCount, hits, result,
                   err, fatalErr, reqs, fetched, seen>>

\* streaming: for _, h := range hits { ... Println(strings.Join(cells, ",")) }
S_Rows ==
    /\ variant = "streaming" /\ pc = "rows"
    /\ out' = out \o RowLines(hits, header)
    /\ outKind' = outKind \o RowKinds(hits)
    /\ outHdr' = outHdr \o [i \in 1..Len(hits) |-> header]
    /\ pc' = "check"
    /\ UNCHANGED <<variant, index, filter, srv, scrollID, header, hitCount, hits,
                   result, err, fatalErr, reqs, fetched, seen>>

\* streaming: scrollID = result.ScrollID and the two break tests
S_Check ==
    /\ variant = "streaming" /\ pc = "check"
    /\ scrollID' = result.ScrollID
    /\ pc' = IF S_TotalReached(hits, result) THEN "done"
             ELSE IF S_NoMorePages(err) THEN "done"
             ELSE "fetch"
    /\ UNCHANGED <<variant, index, filter, srv, header, hitCount, hits, result,
                   err, out, outKind, outHdr, fatalErr, reqs, fetched, seen>>

\* buffering: one iteration of the fetch loop
B_Fetch ==
    /\ variant = "buffering" /\ pc = "fetch" /\ Len(reqs) < MaxFetch
    /\ LET req == getPage(scrollID, index) IN
       \E r \in Respond(srv, req, Len(reqs) + 1) :
          LET d == sendAndDecode(r.resp) IN
          /\ reqs' = Append(reqs, req)
          /\ srv' = r.srv
          /\ result' = d.result
          /\ err' = d.err
          /\ fetched' = Append(fetched, Fetched(d, Len(out)))
          /\ IF B_FetchFailed(d.err)
             THEN /\ pc' = "failed"
                  /\ fatalErr' = d.err
                  /\ UNCHANGED <<hits, scrollID, seen>>
             ELSE /\ hits' = hits \o d.result.Hits
                  /\ scrollID' = d.result.ScrollID
                  /\ seen' = seen \o d.result.Hits
                  /\ pc' = IF B_NoMorePages(d.err) THEN "post" ELSE "fetch"
                  /\ UNCHANGED fatalErr
    /\ UNCHANGED <<variant, index, filter, header, hitCount, out, outKind, outHdr>>

\* a run without the empty-result test
B_NoResults_Never(hs) == FALSE

\* if len(hits) == 0 : the empty-result test of the buffering variant
B_NoResults(hs) == Len(hs) = 0

\* buffering: if len(hits) == 0 { fatal("no results found") }
B_Check ==
    /\ variant = "buffering" /\ pc = "post"
    /\ IF B_NoResults(hits)
       THEN pc' = "failed" /\ fatalErr' = "no results found"
       ELSE pc' = "header" /\ UNCHANGED fatalErr
    /\ UNCHANGED <<variant, index, filter, srv, scrollID, header, hitCount, hits,
                   result, err, out, outKind, outHdr, reqs, fetched, seen>>

\* buffering: header := getHeader(hits[0], filter); Println
B_Header ==
    /\ variant = "buffering" /\ pc = "header"
    /\ IF Len(hits) = 0
       THEN \* hits[0]: index out of range, the runtime panics
            /\ pc' = "panic"
            /\ UNCHANGED <<header, out, outKind, outHdr>>
       ELSE \E h \in getHeader(hits[1], filter) :
            /\ header' = h
            /\ out' = Append(out, Join(h, ","))
            /\ outKind' = Append(outKind, "header")
            /\ outHdr' = Append(outHdr, h)
            /\ pc' = "rows"
    /\ UNCHANGED <<variant, index, filter, srv, scrollID, hitCount, hits, result,
                   err, fatalErr, reqs, fetched, seen>>

\* buffering: the loop printing every buffered hit, then main returns
B_Rows ==
    /\ variant = "buffering" /\ pc = "rows"
    /\ out' = out \o RowLines(hits, header)
    /\ outKind' = outKind \o RowKinds(hits)
    /\ outHdr' = outHdr \o [i \in 1..Len(hits) |-> header]
    /\ pc' = "done"
    /\ UNCHANGED <<variant, index, filter, srv, scrollID, header, hitCount, hits,
                   result, err, fatalErr, reqs, fetched, seen>>

Next ==
    \/ S_Fetch
    \/ S_Header
    \/ S_Rows
    \/ S_Check
    \/ B_Fetch
    \/ B_Check
    \/ B_Header
    \/ B_Rows

Spec == Init /\ [][Next]_vars

\* ------------------------------------------------------------ properties
Streaming == variant = "streaming"
Buffering == variant = "buffering"

Terminal == pc \in {"done", "failed", "panic"}

CountKind(kinds, k) == Cardinality({i \in DOMAIN kinds : kinds[i] = k})

HeaderLines == CountKind(outKind, "header")
DataRows == CountKind(outKind, "row")

HeaderDerived == HeaderLines > 0

\* the i-th getPage returned a page with hits
PageAt(i) == i \in DOMAIN fetched /\ fetched[i].err = "nil"

\* the i-th getPage met a zero-hit page (the exhaustion signal)
ZeroAt(i) == i \in DOMAIN fetched /\ fetched[i].err = "ErrNoMorePages"

\* the i-th getPage failed with a transport or decode error
FailedAt(i) == i \in DOMAIN fetched /\ fetched[i].err \in {"transport", "decode"}

\* C1: streaming variant: once the header has been derived and printed, the
\* value of header never changes in any later step of the run.
C1_HeaderNeverChanges ==
    [][(Streaming /\ HeaderDerived) => header' = header]_vars

\* C2: streaming variant: the header line is written exactly once and before
\* any data row: the first line of the output is the header and no other
\* line is a header.
C2_HeaderOnceBeforeRows ==
    Streaming => \A i \in DOMAIN outKind : (outKind[i] = "header") <=> (i = 1)

\* C3: streaming variant, cursor mode: when the first page has fewer hits
\* than the total and the second page brings the cumulative count to the
\* reported total, exactly two requests are issued.
C3_StopsAtCumulativeTotal ==
    (/\ Streaming /\ index # ""
     /\ PageAt(1) /\ PageAt(2)
     /\ fetched[1].n < fetched[1].total
     /\ fetched[1].n + fetched[2].n = fetched[2].total)
    => Len(reqs) = 2

\* C4: streaming variant: a first page with exactly as many hits as its
\* reported total ends the loop after that one fetch: no second request is
\* ever issued, the run does not fail, and it ends with exactly that many
\* data rows written.
C4_ExactFirstPageStops ==
    (Streaming /\ PageAt(1) /\ fetched[1].n = fetched[1].total)
    => /\ Len(reqs) = 1
       /\ pc \in {"header", "rows", "check", "done"}
       /\ pc = "done" => DataRows = fetched[1].n

C4_Witness ==
    /\ Streaming /\ pc = "done"
    /\ PageAt(1) /\ fetched[1].n = 2 /\ fetched[1].total = 2
    /\ DataRows = 2 /\ Len(reqs) = 1

\* C5: buffering variant: a first page with exactly as many hits as its
\* reported total ends the fetch loop (total-reached check): no further
\* request is issued after it.
C5_BufferingStopsAtTotal ==
    (Buffering /\ PageAt(1) /\ fetched[1].n = fetched[1].total)
    => Len(reqs) = 1

\* C6: both variants: a zero-hit page is the last page requested: once it
\* has arrived no further request is issued and main has left the fetch loop.
C6_ZeroHitPageStopsLoop ==
    \A i \in DOMAIN fetched :
        ZeroAt(i) => (i = Len(fetched) /\ Len(reqs) = i /\ pc # "fetch")

C6_Witness ==
    /\ Buffering /\ pc = "done"
    /\ PageAt(1) /\ PageAt(2) /\ ZeroAt(3) /\ Len(reqs) = 3

\* C7: streaming variant: when the very first page has zero hits the run
\* does not fault on hits[0]; it ends in the fatal error "no results" with
\* nothing written to the output.
C7_EmptyFirstPageIsFatal ==
    (Streaming /\ ZeroAt(1))
    => /\ pc # "panic"
       /\ out = <<>>
       /\ Terminal => (pc = "failed" /\ fatalErr = "no results found")

\* C8: both variants: a fetch that fails with a transport or decode error
\* is the last request of the run, the run is FAILED with that error, and
\* the output holds exactly the lines it held when the request was sent.
C8_FetchErrorIsFatal ==
    \A i \in DOMAIN fetched :
        FailedAt(i) => /\ i = Len(fetched) /\ Len(reqs) = i
                       /\ pc = "failed" /\ fatalErr = fetched[i].err
                       /\ Len(out) = fetched[i].outLen

C8_Witness ==
    /\ Streaming /\ pc = "failed"
    /\ PageAt(1) /\ FailedAt(2) /\ fatalErr = "decode"
    /\ Len(out) = 1 + fetched[1].n

\* C9: both variants: a zero-hit page after at least one non-empty page ends
\* the run normally: never FAILED or faulted, and at the end every hit
\* fetched has been written as a row.
C9_ExhaustionIsNormalEnd ==
    (PageAt(1) /\ \E i \in DOMAIN fetched : ZeroAt(i))
    => /\ pc \notin {"failed", "panic"}
       /\ pc = "done" => DataRows = Len(seen)

\* C10: streaming variant, cursor mode, paging server holding N hits: a run
\* that ends normally has written exactly N data rows, whatever total the
\* server reports.
C10_AllHitsExported ==
    (Streaming /\ index # "" /\ srv.mode = "paged" /\ pc = "done")
    => DataRows = Len(srv.data)

\* the header has just been derived from hits[0] and printed
JustDerived == pc = "rows" /\ (Buffering \/ S_OnFirstPage(scrollID))

Range(f) == {f[i] : i \in DOMAIN f}

\* C11: non-scrolling run that printed one header and ended normally: the
\* output is determined by the parameters and the server's responses, i.e.
\* every output a second run could write for the same responses (whatever
\* order getHeader visits the first hit's fields in) is this run's output.
C11_OutputDeterministic ==
    (pc = "done" /\ index = "" /\ HeaderLines = 1)
    => \A h \in getHeader(seen[1], filter) :
           out = <<Join(h, ",")>> \o RowLines(seen, h)

\* C12: right after getHeader, the header holds exactly the keys of the
\* first hit that are in the filter, each once, and in one fixed order: no
\* other order is possible for the same hit and filter.
C12_HeaderIsOrderedFilter ==
    JustDerived
    => /\ Range(header) = DOMAIN hits[1].Source \cap Range(filter)
       /\ \A i, j \in DOMAIN header : i # j => header[i] # header[j]
       /\ \A h \in getHeader(hits[1], filter) : h = header

\* the lines of the output with their ghost annotations, and the data rows
Lines == [i \in 1..Len(out) |-> [kind |-> outKind[i], text |-> out[i], hdr |-> outHdr[i]]]
IsRow(l) == l.kind = "row"
Rows == SelectSeq(Lines, IsRow)

\* C13: row projection: for every hit fetched and every header in force when
\* a line was written, the cells built for the hit are as many as the header
\* has columns, cell i being the stringified value of field header[i] when
\* the hit has it and "" when it lacks it.
C13_RowProjection ==
    \A h \in Range(seen) : \A hdr \in Range(outHdr) :
        LET row == Cells(h, hdr)
        IN  /\ Len(row) = Len(hdr)
            /\ \A i \in 1..Len(hdr) :
                   row[i] = IF hdr[i] \in DOMAIN h.Source
                            THEN Sprintf(h.Source[hdr[i]])
                            ELSE ""

C13_Witness ==
    \E k \in 1..Len(Rows) :
        /\ k <= Len(seen)
        /\ Rows[k].hdr = <<"a", "b">>
        /\ "a" \notin DOMAIN seen[k].Source
        /\ Rows[k].text = ",<nil>"

\* C14: the data rows written are, in order, the projections of the hits
\* fetched so far: row k is the row of the k-th fetched hit, never more rows
\* than hits, and exactly one row per fetched hit when the run ends normally
\* (in the streaming variant at every end of the run).
C14_RowsFollowFetchedHits ==
    LET rows == Rows IN
    /\ Len(rows) <= Len(seen)
    /\ \A k \in 1..Len(rows) : rows[k].text = Join(Cells(seen[k], rows[k].hdr), ",")
    /\ (pc = "done" \/ (Streaming /\ Terminal)) => Len(rows) = Len(seen)

C14_Witness ==
    /\ pc = "done"
    /\ PageAt(1) /\ PageAt(2) /\ fetched[1].n = 2
    /\ Len(seen) = 3 /\ Len(Rows) = 3
    /\ Rows[1].text # Rows[2].text

\* C15: the initial search request is sent at most once: every request after
\* the first is a continuation request carrying the cursor token of the page
\* fetched just before it, and without an index a non-empty first page is
\* followed by no further request.
C15_InitialRequestOnce ==
    /\ \A i \in 2..Len(reqs) :
           reqs[i].kind = "scroll" /\ reqs[i].scroll_id = fetched[i - 1].token
    /\ (index = "" /\ PageAt(1)) => Len(reqs) = 1

\* C16: buffering variant: when the first page has zero hits nothing is ever
\* written and the run ends with the fatal error "no results found"; the
\* header is derived from hits[0] only when at least one hit is buffered.
C16_NoResultsIsFatal ==
    Buffering
    => /\ ZeroAt(1) => /\ out = <<>>
                       /\ pc \in {"post", "failed"}
                       /\ pc = "failed" => fatalErr = "no results found"
       /\ pc \in {"header", "rows"} => Len(hits) > 0
       /\ pc # "panic"

C16_Witness ==
    /\ Buffering /\ ZeroAt(1)
    /\ pc = "failed" /\ fatalErr = "no results found"
    /\ out = <<>> /\ Len(hits) = 0

\* C17: streaming variant: whenever main is about to send a request, every
\* hit of every page fetched so far has been written: the number of data
\* rows in the output equals the running hit count.
C17_RowsWrittenBeforeNextFetch ==
    (Streaming /\ pc = "fetch")
    => /\ hitCount = Len(seen)
       /\ DataRows = hitCount
       /\ Len(out) = HeaderLines + hitCount

C17_Witness ==
    /\ Streaming /\ pc = "fetch"
    /\ Len(reqs) = 2 /\ PageAt(1) /\ PageAt(2)
    /\ hitCount >= 3 /\ DataRows = hitCount

\* C18: buffering variant: nothing is written while the fetch loop runs, and
\* a transport or decode error on any page ends the run FAILED with an empty
\* output.
C18_BufferingAllOrNothing ==
    Buffering
    => /\ pc \in {"fetch", "post"} => out = <<>>
       /\ \A i \in DOMAIN fetched :
              FailedAt(i) => (pc = "failed" /\ out = <<>>)

C18_Witness ==
    /\ Buffering /\ pc = "failed"
    /\ PageAt(1) /\ FailedAt(2)
    /\ Len(hits) > 0 /\ out = <<>>

====
